---- MODULE Spec2Model ----
(***************************************************************************)
(* A model of src/controllers/utils.js: the full-text-index query helpers  *)
(* (fti, ftiWithPatientIds, chunk), the named queries built on them and    *)
(* the enrichment operations (rejectDeliveries, injectVisits, injectRisk). *)
(*                                                                         *)
(* JavaScript values are modelled as follows.                              *)
(*   - an object is a record; an absent property is a name that is not in  *)
(*     the record's DOMAIN;                                                *)
(*   - null and undefined are the record Null;                             *)
(*   - the array literal [] handed to a callback is the record EmptyArray  *)
(*     (an array has a length and neither total_rows nor rows);            *)
(*   - an array that the code indexes or iterates is a sequence;           *)
(*   - a query string is the record of the parts the code concatenates:    *)
(*     [q |-> base] or [q |-> base, patient_id |-> ids] for                *)
(*     base + ' AND patient_id:(' + ids.join(' OR ') + ')'.                *)
(* Patient identifiers are plain identifiers (none is the name of a        *)
(* property of Object.prototype).                                          *)
(*                                                                         *)
(* The engine (db.fti) is the environment: it answers an outstanding query *)
(* with an error, with null, with an object that has no rows, or with      *)
(* rows whose documents match the query's patient_id clause.               *)
(*                                                                         *)
(* The functions that take no engine call (the merge step of the chunk     *)
(* reduction, formatDateRange, getWeeksPregnant, getEDD) are applied to    *)
(* inputs held in the variable calc.  A moment is the record of its        *)
(* instant t, in hours since 1970-01-01T00:00Z, and of its UTC offset in   *)
(* hours; a formatted day YYYY-MM-DD is the tuple <<year, month, day>>.    *)
(* Offsets are fixed: no daylight-saving change falls inside a             *)
(* calculation.                                                            *)
(***************************************************************************)
EXTENDS Integers, Sequences, FiniteSets, TLC

VARIABLES
  luceneConditionalLimit,   \* the module-level chunk limit (utils.js:6)
  rq,                       \* rq[r]: the state of request r (see Idle)
  calc                      \* a function application: its inputs, then its outputs

vars == <<luceneConditionalLimit, rq, calc>>

\* ---------------------------------------------------------------- bounds

MaxIds == 3        \* longest identifier sequence / entity batch a caller passes
MaxRows == 1       \* most rows in one engine response
MaxLimit == 2      \* largest limit given to setup
MaxDays == 2       \* days after the first that the dates of a calculation span
MaxWeeks == 10     \* most whole weeks between a record's date and now
DefaultLimit == 1000

PatientIds == {"A", "B"}
Errors == {"E1", "E2"}
Reqs == {1, 2}

\* ------------------------------------------------------------ JS values

Null == [null |-> TRUE]
EmptyArray == [length |-> 0]
NoErr == "null"

Has(o, f) == f \in DOMAIN o

SetField(o, f, v) == [x \in DOMAIN o \cup {f} |-> IF x = f THEN v ELSE o[x]]

Min(a, b) == IF a < b THEN a ELSE b

SeqsUpTo(S, n) == UNION {[1..k -> S] : k \in 0..n}

\* Array.prototype.slice(a, b) on a sequence (0-based, end exclusive, clamped).
slice(items, a, b) == SubSeq(items, a + 1, Min(b, Len(items)))

Range(f) == {f[i] : i \in DOMAIN f}

\* ------------------------------------------------- pure helpers of utils.js

\* config.get('anc_forms'): the static form-code table.
anc_forms ==
  [registration |-> "R", registrationLmp |-> "P", delivery |-> "D",
   visit |-> "V", flag |-> "F"]

getFormCode(key) == anc_forms[key]

\* for (i = 0; i < items.length; i += size) chunks.push(items.slice(i, i + size))
RECURSIVE chunkFrom(_, _, _)
chunkFrom(items, size, i) ==
  IF i < Len(items)
  THEN <<slice(items, i, i + size)>> \o chunkFrom(items, size, i + size)
  ELSE <<>>

\* chunk with the slice one item too long: items.slice(i, i + size + 1).
RECURSIVE chunkOverlapFrom(_, _, _)
chunkOverlapFrom(items, size, i) ==
  IF i < Len(items)
  THEN <<slice(items, i, i + size + 1)>> \o chunkOverlapFrom(items, size, i + size)
  ELSE <<>>

chunkOverlap(items, size) == chunkOverlapFrom(items, size, 0)

chunk(items, size) == chunkFrom(items, size, 0)

collectPatientIds(records) ==
  [i \in 1..Len(records.rows) |-> records.rows[i].doc.patient_id]

\* _.pluck(objects, 'patient_id')
pluckPatientId(objects) == [i \in 1..Len(objects) |-> objects[i].patient_id]

\* What underscore iterates for list.rows: nothing when rows is undefined.
rowsOf(list) == IF Has(list, "rows") THEN list.rows ELSE <<>>

\* _.union(a, b): the elements of a then b, each kept at its first occurrence.
RECURSIVE uniq(_)
uniq(s) ==
  IF s = <<>> THEN <<>>
  ELSE LET init == uniq(SubSeq(s, 1, Len(s) - 1))
           last == s[Len(s)]
       IN IF last \in Range(init) THEN init ELSE Append(init, last)

\* The two id lists concatenated, duplicates kept.
unionKeepsDuplicates(a, b) == a \o b

union(a, b) == uniq(a \o b)

\* The db.fti callback of fti: what fti hands to its own callback.
ftiCallback(resp) ==
  IF resp.err # NoErr THEN [err |-> resp.err, result |-> Null]
  ELSE IF resp.result = Null
       THEN [err |-> NoErr, result |-> [total_rows |-> 0, rows |-> <<>>]]
       ELSE IF ~Has(resp.result, "rows")
            THEN [err |-> NoErr, result |-> SetField(resp.result, "rows", <<>>)]
            ELSE [err |-> NoErr, result |-> resp.result]

\* reduceStep with the concatenation turned round: result.rows.concat(memo.rows).
reduceStepPrepend(memo, result) ==
  [rows |-> result.rows \o memo.rows,
   total_rows |-> memo.total_rows + result.total_rows]

\* reduceStep taking the chunk's total in place of the sum:
\* total_rows: result.total_rows.
reduceStepLastTotal(memo, result) ==
  [rows |-> memo.rows \o result.rows,
   total_rows |-> result.total_rows]

\* The value the reduce iteratee passes on: memo merged with one chunk result.
reduceStep(memo, result) ==
  [rows |-> memo.rows \o result.rows,
   total_rows |-> memo.total_rows + result.total_rows]

\* undelivered comparing each object with the first delivery row only.
undeliveredFirstRow(objects, deliveries) ==
  SelectSeq(objects, LAMBDA object :
    ~(/\ rowsOf(deliveries) # <<>>
      /\ rowsOf(deliveries)[1].doc.patient_id = object.patient_id))

\* _.reject(objects, o => _.some(deliveries.rows, d => d.doc.patient_id === o.patient_id))
undelivered(objects, deliveries) ==
  SelectSeq(objects, LAMBDA object :
    ~\E i \in 1..Len(rowsOf(deliveries)) :
        rowsOf(deliveries)[i].doc.patient_id = object.patient_id)

\* _.countBy(visits.rows, v => v.doc.patient_id)[id] || 0
countFor(visits, id) ==
  Cardinality({i \in 1..Len(rowsOf(visits)) : rowsOf(visits)[i].doc.patient_id = id})

\* setVisits keeping a count that is already there: object.visits || count.
setVisitsKeep(objects, visits) ==
  [i \in 1..Len(objects) |->
     IF Has(objects[i], "visits") /\ objects[i].visits # 0 THEN objects[i]
     ELSE SetField(objects[i], "visits", countFor(visits, objects[i].patient_id))]

setVisits(objects, visits) ==
  [i \in 1..Len(objects) |->
     SetField(objects[i], "visits", countFor(visits, objects[i].patient_id))]

\* _.findWhere(objects, {patient_id: id}): the index of the first match, 0 if none.
findWhere(objects, id) ==
  IF \E i \in 1..Len(objects) : objects[i].patient_id = id
  THEN CHOOSE i \in 1..Len(objects) :
         /\ objects[i].patient_id = id
         /\ \A j \in 1..(i - 1) : objects[j].patient_id # id
  ELSE 0

\* markRisk writing the comparison's outcome to every object:
\* object.high_risk = (object.patient_id === risk.doc.patient_id).
markRiskAll(objects, risk) ==
  [i \in 1..Len(objects) |->
     SetField(objects[i], "high_risk", objects[i].patient_id = risk.doc.patient_id)]

\* markRisk marking every object of the patient (_.where in place of
\* _.findWhere).
markRiskEvery(objects, risk) ==
  [i \in 1..Len(objects) |->
     IF objects[i].patient_id = risk.doc.patient_id
     THEN SetField(objects[i], "high_risk", TRUE) ELSE objects[i]]

markRisk(objects, risk) ==
  LET k == findWhere(objects, risk.doc.patient_id)
  IN IF k = 0 THEN objects
     ELSE [objects EXCEPT ![k] = SetField(objects[k], "high_risk", TRUE)]

\* _.each(risks.rows, risk => ...)
RECURSIVE setRisk(_, _)
setRisk(objects, rows) ==
  IF rows = <<>> THEN objects
  ELSE setRisk(markRisk(objects, Head(rows)), Tail(rows))

\* ------------------------------------------------------------- moments

\* The proleptic Gregorian calendar, as moment's parser and formatter use it:
\* the number of the day y-m-d counted from 1970-01-01, and back.
DaysFromCivil(y, m, d) ==
  LET yy == IF m <= 2 THEN y - 1 ELSE y
      era == yy \div 400
      yoe == yy - era * 400
      mp == IF m > 2 THEN m - 3 ELSE m + 9
      doy == (153 * mp + 2) \div 5 + d - 1
      doe == yoe * 365 + yoe \div 4 - yoe \div 100 + doy
  IN era * 146097 + doe - 719468

CivilFromDays(n) ==
  LET z == n + 719468
      era == z \div 146097
      doe == z - era * 146097
      yoe == (doe - doe \div 1460 + doe \div 36524 - doe \div 146096) \div 365
      doy == doe - (365 * yoe + yoe \div 4 - yoe \div 100)
      mp == (5 * doy + 2) \div 153
      d == doy - (153 * mp + 2) \div 5 + 1
      m == IF mp < 10 THEN mp + 3 ELSE mp - 9
      y == yoe + era * 400 + (IF m <= 2 THEN 1 ELSE 0)
  IN <<y, m, d>>

\* moment(input) for a timestamp, in a process whose local offset is offset.
moment(input, offset) == [t |-> input, offset |-> offset]

\* date.zone(0): the moment is switched to UTC in place; the instant stays.
zone(date, offset) == [date EXCEPT !.offset = offset]

\* date.format('YYYY-MM-DD'): the calendar day at the moment's offset.
format(date) == CivilFromDays((date.t + date.offset) \div 24)

HoursIn(unit) == IF unit = "weeks" THEN 7 * 24 ELSE 24

\* date.clone(): a moment of its own with the same instant and offset.
clone(date) == date

\* date.add(n, unit), in place.
add(date, n, unit) == [date EXCEPT !.t = @ + n * HoursIn(unit)]

\* a.diff(b, unit): the whole units from b to a, rounded towards zero.
diff(a, b, unit) ==
  LET delta == a.t - b.t
  IN IF delta >= 0 THEN delta \div HoursIn(unit) ELSE -((-delta) \div HoursIn(unit))

\* formatDate returns the text; date is the argument as the call leaves it.
formatDate(date) ==
  LET utc == zone(date, 0)
  IN [text |-> format(utc), date |-> utc]

\* formatDateRange adding the day to endDate itself, without the clone.
formatDateRangeNoClone(field, startDate, endDate) ==
  LET start == formatDate(startDate)
      end == formatDate(add(endDate, 1, "days"))
  IN [fragment |-> [field |-> field, start |-> start.text, end |-> end.text],
      startDate |-> start.date, endDate |-> end.date]

\* field + '<date>:[' + start + ' TO ' + end + ']'; startDate and endDate are
\* the arguments as the call leaves them.
formatDateRange(field, startDate, endDate) ==
  LET start == formatDate(startDate)
      end == formatDate(add(clone(endDate), 1, "days"))
  IN [fragment |-> [field |-> field, start |-> start.text, end |-> end.text],
      startDate |-> start.date, endDate |-> endDate]

\* getWeeksPregnant taking the weeks since the LMP as they are.
getWeeksPregnantNoAdjust(doc, now) ==
  IF doc.form = "R"
  THEN [number |-> diff(now, moment(doc.reported_date, now.offset), "weeks"),
        approximate |-> TRUE]
  ELSE [number |-> diff(now, moment(doc.lmp_date, now.offset), "weeks")]

\* getWeeksPregnant(doc), with moment() = now.
getWeeksPregnant(doc, now) ==
  IF doc.form = "R"
  THEN [number |-> diff(now, moment(doc.reported_date, now.offset), "weeks"),
        approximate |-> TRUE]
  ELSE [number |-> diff(now, moment(doc.lmp_date, now.offset), "weeks") - 2]

\* getEDD adding 43 weeks to the LMP.
getEDDLate(doc, offset) ==
  IF doc.form = "R"
  THEN [date |-> add(moment(doc.reported_date, offset), 40, "weeks"),
        approximate |-> TRUE]
  ELSE [date |-> add(moment(doc.lmp_date, offset), 43, "weeks")]

\* getEDD(doc), in a process whose local offset is offset.
getEDD(doc, offset) ==
  IF doc.form = "R"
  THEN [date |-> add(moment(doc.reported_date, offset), 40, "weeks"),
        approximate |-> TRUE]
  ELSE [date |-> add(moment(doc.lmp_date, offset), 42, "weeks")]

\* ------------------------------------------------------- request state

(* rq[r], the state of one top-level request:
     pc        "idle", "waiting" (an engine query is outstanding) or "done"
     op        the exported operation the caller invoked
     stage     the named query whose chunk sequence is running
     options   the caller's options object (the code writes into it)
     objects   the caller's entity array (annotated in place)
     registrations  getBirthPatientIds' first result, kept by its closure
     calls     one record per ftiWithPatientIds invocation, newest last:
               options, the limit read and the chunks cut from it, the
               reduce memo, the engine queries issued and the responses
               received so far, and what was handed to its callback (out)
     inflight  the engine queries sent and not yet answered
     cbs       the invocations of the caller's callback, as [err, result]
   objects0, limit0 and sent record the entities as passed, the limit when
   the request was made and every engine query the request has sent. *)
Idle ==
  [pc |-> "idle", op |-> "none", stage |-> "none", options |-> Null, options0 |-> Null,
   objects |-> <<>>, objects0 |-> <<>>, registrations |-> Null,
   calls |-> <<>>, inflight |-> <<>>, sent |-> <<>>, cbs |-> <<>>, limit0 |-> 0]

NewCall(options) ==
  [options |-> options, limit |-> 0, chunks |-> <<>>, memo |-> Null,
   queries |-> <<>>, resps |-> <<>>, out |-> Null]

cur(s) == s.calls[Len(s.calls)]

setCur(s, c) == [s EXCEPT !.calls[Len(s.calls)] = c]

\* The caller's callback is invoked.
Callback(s, err, result) ==
  [s EXCEPT !.pc = "done", !.cbs = Append(@, [err |-> err, result |-> result])]

\* db.fti('data_records', queryOptions, ...) is called.
dbFti(s, query) ==
  [s EXCEPT !.pc = "waiting",
            !.inflight = Append(@, query),
            !.sent = Append(@, query)]

\* fti(options, callback) called by the caller itself.
fti(s, options) == dbFti(s, [q |-> options.q])

\* fti called from ftiWithPatientIds: the query is noted in the call record.
ftiInCall(s, query) ==
  dbFti(setCur(s, [cur(s) EXCEPT !.queries = Append(@, query)]), query)

\* reduceNext as a parallel map would run it: every chunk query not yet issued
\* is issued at once.
RECURSIVE issueFrom(_, _)
issueFrom(s, k) ==
  IF k > Len(cur(s).chunks) THEN s
  ELSE issueFrom(ftiInCall(s, [q |-> cur(s).options.q, patient_id |-> cur(s).chunks[k]]),
                 k + 1)

reduceParallel(s) == issueFrom(s, Len(cur(s).queries) + 1)

\* The reduce iteratee runs for the next chunk (async.reduce runs it for one
\* item at a time, when the previous item's callback has been called).
reduceNext(s) ==
  LET c == cur(s)
      ids == c.chunks[Len(c.resps) + 1]
  IN ftiInCall(s, [q |-> c.options.q, patient_id |-> ids])

RECURSIVE Deliver(_, _, _)

\* ftiWithPatientIds' callback is called.
fwpCallback(s, err, result) ==
  Deliver(setCur(s, [cur(s) EXCEPT !.out = [err |-> err, result |-> result]]),
          err, result)

\* ftiWithPatientIds with the empty array treated like an absent one:
\* if (options.patientIds && options.patientIds.length) ... else fti(options).
ftiWithPatientIdsTruthy(s, options) ==
  LET s1 == [s EXCEPT !.calls = Append(@, NewCall(options))]
  IN IF Has(options, "patientIds") /\ Len(options.patientIds) > 0
     THEN reduceNext(setCur(s1,
            [cur(s1) EXCEPT
               !.limit = luceneConditionalLimit,
               !.chunks = chunk(options.patientIds, luceneConditionalLimit),
               !.memo = [rows |-> <<>>, total_rows |-> 0]]))
     ELSE ftiInCall(s1, [q |-> options.q])

ftiWithPatientIds(s, options) ==
  LET s1 == [s EXCEPT !.calls = Append(@, NewCall(options))]
  IN IF Has(options, "patientIds")
     THEN IF Len(options.patientIds) = 0
          THEN fwpCallback(s1, NoErr, [total_rows |-> 0, rows |-> <<>>])
          ELSE reduceNext(setCur(s1,
                 [cur(s1) EXCEPT
                    !.limit = luceneConditionalLimit,
                    !.chunks = chunk(options.patientIds, luceneConditionalLimit),
                    !.memo = [rows |-> <<>>, total_rows |-> 0]]))
     ELSE ftiInCall(s1, [q |-> options.q])

\* options.f || dflt
OrDefault(options, f, dflt) ==
  IF Has(options, f) /\ options[f] # 0 THEN options[f] ELSE dflt

\* {q: ..., patientIds: options.patientIds, include_docs: true}
withPatientIdsOf(o, options) ==
  IF Has(options, "patientIds") THEN SetField(o, "patientIds", options.patientIds)
  ELSE o

getAllRegistrations(s, options) ==
  LET query == [errors |-> 0,
                form |-> <<getFormCode("registration"), getFormCode("registrationLmp")>>,
                expected_date |-> <<OrDefault(options, "maxWeeksPregnant", 42),
                                    OrDefault(options, "minWeeksPregnant", 0)>>]
  IN ftiWithPatientIds([s EXCEPT !.stage = "registrations"],
       withPatientIdsOf([q |-> query, include_docs |-> TRUE], options))

getDeliveries(s, options) ==
  LET o == SetField(options, "q", [form |-> getFormCode("delivery")])
  IN ftiWithPatientIds([s EXCEPT !.stage = "deliveries", !.options = o], o)

\* getVisits checking only that options were given: a missing or empty
\* patientIds goes on to ftiWithPatientIds.
getVisitsUnguarded(s, options) ==
  IF options = Null
  THEN Deliver([s EXCEPT !.stage = "visits"], NoErr, EmptyArray)
  ELSE ftiWithPatientIds([s EXCEPT !.stage = "visits"],
         withPatientIdsOf([q |-> [form |-> getFormCode("visit")], include_docs |-> TRUE],
                          options))

getVisits(s, options) ==
  IF options = Null \/ ~Has(options, "patientIds") \/ Len(options.patientIds) = 0
  THEN Deliver([s EXCEPT !.stage = "visits"], NoErr, EmptyArray)
  ELSE ftiWithPatientIds([s EXCEPT !.stage = "visits"],
         [q |-> [form |-> getFormCode("visit")], include_docs |-> TRUE,
          patientIds |-> options.patientIds])

getHighRisk(s, options) ==
  IF options = Null \/ ~Has(options, "patientIds") \/ Len(options.patientIds) = 0
  THEN Deliver([s EXCEPT !.stage = "flag"], NoErr, EmptyArray)
  ELSE LET o == SetField(SetField(options, "include_docs", TRUE),
                         "q", [form |-> getFormCode("flag")])
       IN ftiWithPatientIds([s EXCEPT !.stage = "flag"], o)

\* getBirthPatientIds' first callback without the error check: the deliveries
\* query is sent regardless.
onRegistrationsUnchecked(s, err, registrations) ==
  getDeliveries([s EXCEPT !.registrations = registrations],
                SetField(s.options, "include_docs", TRUE))

\* The callbacks that the composite operations hand to the query layer.
\* getBirthPatientIds, after getAllRegistrations:
onRegistrations(s, err, registrations) ==
  IF err # NoErr THEN Callback(s, err, Null)
  ELSE getDeliveries([s EXCEPT !.registrations = registrations],
                     SetField(s.options, "include_docs", TRUE))

\* getBirthPatientIds, after getDeliveries:
onDeliveries(s, err, deliveries) ==
  IF err # NoErr THEN Callback(s, err, Null)
  ELSE Callback(s, NoErr,
         union(collectPatientIds(deliveries), collectPatientIds(s.registrations)))

\* rejectDeliveries, after getDeliveries:
onRejectDeliveries(s, err, deliveries) ==
  IF err # NoErr THEN Callback(s, err, Null)
  ELSE Callback(s, NoErr, undelivered(s.objects, deliveries))

\* injectVisits' callback with the return of its error branch missing: the
\* counts are written before the error is handed over.
onVisitsNoReturn(s, err, visits) ==
  LET objects == setVisits(s.objects, visits)
  IN IF err # NoErr THEN Callback([s EXCEPT !.objects = objects], err, Null)
     ELSE Callback([s EXCEPT !.objects = objects], NoErr, objects)

\* injectVisits, after getVisits:
onVisits(s, err, visits) ==
  IF err # NoErr THEN Callback(s, err, Null)
  ELSE LET objects == setVisits(s.objects, visits)
       IN Callback([s EXCEPT !.objects = objects], NoErr, objects)

\* injectRisk, after getHighRisk:
onRisks(s, err, risks) ==
  IF err # NoErr THEN Callback(s, err, Null)
  ELSE LET objects == setRisk(s.objects, rowsOf(risks))
       IN Callback([s EXCEPT !.objects = objects], NoErr, objects)

\* The callback each operation gives to the query it runs.
Deliver(s, err, result) ==
  CASE s.op \in {"ftiWithPatientIds", "getAllRegistrations", "getDeliveries", "getVisits"} ->
         Callback(s, err, result)
    [] s.op = "getBirthPatientIds" /\ s.stage = "registrations" ->
         onRegistrations(s, err, result)
    [] s.op = "getBirthPatientIds" /\ s.stage = "deliveries" ->
         onDeliveries(s, err, result)
    [] s.op = "rejectDeliveries" -> onRejectDeliveries(s, err, result)
    [] s.op = "injectVisits" -> onVisits(s, err, result)
    [] s.op = "injectRisk" -> onRisks(s, err, result)

\* async.reduce: the callback it hands to the iteratee. memo = v; an error ends
\* the series and the final callback gets (err, memo); otherwise the iteratee
\* runs for the next chunk or, after the last one, the final callback gets memo.
reduceCallback(s, err, v) ==
  LET s1 == setCur(s, [cur(s) EXCEPT !.memo = v])
  IN IF err # NoErr THEN fwpCallback(s1, err, v)
     ELSE IF Len(cur(s).resps) < Len(cur(s).chunks) THEN reduceNext(s1)
          ELSE fwpCallback(s1, NoErr, v)

\* iteratee passing the rows gathered so far along with the error:
\* callback(err, memo).
iterateeKeepsMemo(s, r) ==
  IF r.err # NoErr THEN reduceCallback(s, r.err, cur(s).memo)
  ELSE reduceCallback(s, NoErr, reduceStep(cur(s).memo, r.result))

\* iteratee returning on an error without calling back: if (err) { return; }.
iterateeDropsError(s, r) ==
  IF r.err # NoErr THEN s
  ELSE reduceCallback(s, NoErr, reduceStep(cur(s).memo, r.result))

\* The callback the iteratee gave to fti: callback(err) or callback(null, merged).
iteratee(s, r) ==
  IF r.err # NoErr THEN reduceCallback(s, r.err, Null)
  ELSE reduceCallback(s, NoErr, reduceStep(cur(s).memo, r.result))

\* The callback fti gave to db.fti runs with the engine's response.
onResponse(s, resp) ==
  LET r == ftiCallback(resp)
  IN IF s.op = "fti" THEN Callback(s, r.err, r.result)
     ELSE LET s1 == setCur(s, [cur(s) EXCEPT !.resps = Append(@, resp)])
          IN IF Has(cur(s).options, "patientIds") THEN iteratee(s1, r)
             ELSE fwpCallback(s1, r.err, r.result)

\* --------------------------------------------------- inputs and engine

\* What a caller passes as options: without a patientIds array, or with one
\* of at most n identifiers.
QueryOptions(n) ==
  {[include_docs |-> TRUE]} \cup
  {[include_docs |-> TRUE, patientIds |-> ids] : ids \in SeqsUpTo(PatientIds, n)}

\* What a caller passes to getBirthPatientIds: as above, with or without a
\* minWeeksPregnant of its own.
BirthOptions(n) ==
  QueryOptions(n) \cup {SetField(o, "minWeeksPregnant", 10) : o \in QueryOptions(n)}

\* Entities as callers pass them: with or without the attributes that the
\* enrichment operations write.
PlainEntities == {[patient_id |-> p] : p \in PatientIds}

VisitEntities ==
  PlainEntities \cup {[patient_id |-> p, visits |-> 7] : p \in PatientIds}

RiskEntities ==
  PlainEntities \cup {[patient_id |-> p, high_risk |-> b] : p \in PatientIds, b \in BOOLEAN}

\* The batch of the rejectDeliveries example of the specification.
ExampleBatch ==
  <<[patient_id |-> "A"], [patient_id |-> "C"],
    [patient_id |-> "B"], [patient_id |-> "D"]>>

Row(p) == [doc |-> [patient_id |-> p]]

RowSeqs(S) == SeqsUpTo({Row(p) : p \in S}, MaxRows)

\* The documents an engine query can match.
Matching(query) ==
  IF Has(query, "patient_id") THEN Range(query.patient_id) ELSE PatientIds

\* What db.fti can call back with for a query.
Responses(query) ==
  {[err |-> e, result |-> Null] : e \in Errors} \cup
  {[err |-> NoErr, result |-> x] :
     x \in {Null, [total_rows |-> 1]} \cup
           {[total_rows |-> Len(rows), rows |-> rows] : rows \in RowSeqs(Matching(query))}}

\* -------------------------------------------------------------- actions

Begin(op) == [Idle EXCEPT !.op = op, !.limit0 = luceneConditionalLimit]

Start(r, s) ==
  /\ rq[r].pc = "idle"
  /\ rq' = [rq EXCEPT ![r] = s]
  /\ UNCHANGED <<luceneConditionalLimit, calc>>

CallFti(r) ==
  Start(r, fti(Begin("fti"), [q |-> [text |-> "q"]]))

CallFtiWithPatientIds(r, O) ==
  \E options \in O :
    Start(r, ftiWithPatientIds([Begin("ftiWithPatientIds") EXCEPT !.stage = "plain"],
                               SetField(options, "q", [text |-> "q"])))

CallGetAllRegistrations(r, O) ==
  \E options \in O :
    Start(r, getAllRegistrations([Begin("getAllRegistrations") EXCEPT !.options = options],
                                 options))

\* getDeliveries(callback) is getDeliveries({}, callback): the options of O
\* without patientIds stand for it.
CallGetDeliveries(r, O) ==
  \E options \in O :
    Start(r, getDeliveries(Begin("getDeliveries"), options))

CallGetBirthPatientIds(r, O) ==
  \E options \in O :
    LET o == SetField(SetField(options, "minWeeksPregnant", 42),
                      "maxWeeksPregnant", OrDefault(options, "maxWeeksPregnant", 10000))
    IN Start(r, getAllRegistrations([Begin("getBirthPatientIds") EXCEPT
                                       !.options = o, !.options0 = options], o))

CallRejectDeliveries(r, B) ==
  \E objects \in B :
    LET s == [Begin("rejectDeliveries") EXCEPT !.objects = objects, !.objects0 = objects]
    IN Start(r, IF Len(objects) = 0 THEN Callback(s, NoErr, <<>>)
                ELSE getDeliveries(s, [patientIds |-> pluckPatientId(objects),
                                      include_docs |-> TRUE]))

CallGetVisits(r, O) ==
  \E options \in O \cup {Null} :
    Start(r, getVisits([Begin("getVisits") EXCEPT !.options = options], options))

CallInjectVisits(r, B) ==
  \E objects \in B :
    Start(r, getVisits([Begin("injectVisits") EXCEPT !.objects = objects, !.objects0 = objects],
                       [patientIds |-> pluckPatientId(objects)]))

CallInjectRisk(r, B) ==
  \E objects \in B :
    Start(r, getHighRisk([Begin("injectRisk") EXCEPT !.objects = objects, !.objects0 = objects],
                         [patientIds |-> pluckPatientId(objects)]))

\* The engine answers one outstanding query of request r.
EngineRespond(r) ==
  \E k \in 1..Len(rq[r].inflight) :
    \E resp \in Responses(rq[r].inflight[k]) :
      LET s == [rq[r] EXCEPT
                  !.inflight = SubSeq(@, 1, k - 1) \o SubSeq(@, k + 1, Len(@))]
      IN /\ rq' = [rq EXCEPT ![r] = onResponse(s, resp)]
         /\ UNCHANGED <<luceneConditionalLimit, calc>>

\* setup(limit)
Setup ==
  \E limit \in 1..MaxLimit :
    /\ luceneConditionalLimit' = limit
    /\ UNCHANGED <<rq, calc>>

Init ==
  /\ luceneConditionalLimit = DefaultLimit
  /\ rq = [r \in Reqs |-> Idle]
  /\ calc = [fn |-> "none"]

\* One request: the chunked executor is called with up to MaxIds identifiers,
\* the operations built on it with shorter sequences.
Next ==
  \/ Setup
  \/ CallFti(1)
  \/ CallFtiWithPatientIds(1, QueryOptions(MaxIds))
  \/ CallGetAllRegistrations(1, QueryOptions(MaxIds - 1))
  \/ CallGetDeliveries(1, QueryOptions(MaxIds - 1))
  \/ CallGetBirthPatientIds(1, BirthOptions(MaxIds - 2))
  \/ CallRejectDeliveries(1, SeqsUpTo(PlainEntities, MaxIds - 1) \cup {ExampleBatch})
  \/ CallGetVisits(1, QueryOptions(MaxIds - 1))
  \/ CallInjectVisits(1, SeqsUpTo(VisitEntities, MaxIds - 1))
  \/ CallInjectRisk(1, SeqsUpTo(RiskEntities, MaxIds - 1))
  \/ EngineRespond(1)

Spec == Init /\ [][Next]_vars

\* The same with an engine that answers: a query that is outstanding is
\* eventually called back.
SpecLive == Init /\ [][Next]_vars /\ WF_vars(EngineRespond(1))

\* Two requests whose engine calls and responses interleave in any order, with
\* setup called at any time: request 1 is a getBirthPatientIds (two chunk
\* sequences), request 2 a ftiWithPatientIds (one).
NextConc ==
  \/ Setup
  \/ CallGetBirthPatientIds(1, QueryOptions(MaxIds - 1))
  \/ CallFtiWithPatientIds(2, QueryOptions(MaxIds - 2))
  \/ EngineRespond(1)
  \/ EngineRespond(2)

SpecConc == Init /\ [][NextConc]_vars

\* ------------------------------------------- the functions without I/O

\* The results that the merge step is given: rows as the engine returns them
\* and a total that is the number of rows or more.
MergeResults ==
  {[rows |-> rows, total_rows |-> Len(rows) + more] :
     rows \in RowSeqs(PatientIds), more \in {0, 1}}

MergeInputs ==
  {[fn |-> "merge", a |-> a, b |-> b, c |-> c, out |-> Null] :
     a \in MergeResults, b \in MergeResults, c \in MergeResults}

\* The merge step folds a, b, c from the left, from the right, and a alone
\* from the initial accumulator of ftiWithPatientIds.
Merge ==
  /\ calc.fn = "merge" /\ calc.out = Null
  /\ calc' = [calc EXCEPT !.out =
                [left |-> reduceStep(reduceStep(calc.a, calc.b), calc.c),
                 right |-> reduceStep(calc.a, reduceStep(calc.b, calc.c)),
                 single |-> reduceStep([rows |-> <<>>, total_rows |-> 0], calc.a)]]
  /\ UNCHANGED <<luceneConditionalLimit, rq>>

\* The process's local UTC offsets, in hours.
Offsets == {-5, 0, 3}

\* Instants: the first and the last hour (UTC) of the days from 2020-02-27
\* on, which run over a leap day, and of the last day of 2019.
Instants ==
  {24 * day + hour :
     day \in {DaysFromCivil(2019, 12, 31)} \cup
              {DaysFromCivil(2020, 2, 27) + k : k \in 0..MaxDays},
     hour \in {0, 23}}

Moments == {moment(t, offset) : t \in Instants, offset \in Offsets}

RangeInputs ==
  {[fn |-> "formatDateRange", field |-> "reported_date",
    startDate |-> startDate, endDate |-> endDate,
    startDate0 |-> startDate, endDate0 |-> endDate, out |-> <<>>] :
     startDate \in Moments, endDate \in Moments}

\* formatDateRange is called with the two moments, as the previous call left
\* them.
FormatDateRange ==
  /\ calc.fn = "formatDateRange" /\ Len(calc.out) < 2
  /\ LET r == formatDateRange(calc.field, calc.startDate, calc.endDate)
     IN calc' = [calc EXCEPT !.out = Append(@, r.fragment),
                             !.startDate = r.startDate,
                             !.endDate = r.endDate]
  /\ UNCHANGED <<luceneConditionalLimit, rq>>

\* The clock: midnight and the last hour (UTC) of 2020-03-01.
Nows == {24 * DaysFromCivil(2020, 3, 1) + hour : hour \in {0, 23}}

\* Records whose date lies 0..MaxWeeks whole weeks, and up to a week less an
\* hour more, before now, or an hour after it: registrations by reported
\* date (form R) and by LMP (form P).
WeeksDocs(now) ==
  LET dates == {now - (7 * 24 * w + h) : w \in 0..MaxWeeks, h \in {0, 7 * 24 - 1}}
                 \cup {now + 1}
  IN {[form |-> "R", reported_date |-> t] : t \in dates} \cup
     {[form |-> "P", reported_date |-> now, lmp_date |-> t] : t \in dates}

WeeksInputs ==
  {[fn |-> "getWeeksPregnant", now |-> moment(now, offset), doc |-> doc, out |-> Null] :
     now \in Nows, offset \in {0, 3}, doc \in UNION {WeeksDocs(n) : n \in Nows}}

GetWeeksPregnant ==
  /\ calc.fn = "getWeeksPregnant" /\ calc.out = Null
  /\ calc' = [calc EXCEPT !.out = getWeeksPregnant(calc.doc, calc.now)]
  /\ UNCHANGED <<luceneConditionalLimit, rq>>

\* Records dated at local midnight or in the last hour of the local day, on
\* the days from 2020-01-01 on and on the last day of 2019.
EDDDocs(offset) ==
  LET dates == {24 * day + hour - offset :
                  day \in {DaysFromCivil(2019, 12, 31)} \cup
                           {DaysFromCivil(2020, 1, 1) + k : k \in 0..MaxDays},
                  hour \in {0, 23}}
  IN {[form |-> "R", reported_date |-> t] : t \in dates} \cup
     {[form |-> "P", reported_date |-> t + 24, lmp_date |-> t] : t \in dates}

EDDInputs ==
  UNION {{[fn |-> "getEDD", offset |-> offset, doc |-> doc, out |-> Null] :
            doc \in EDDDocs(offset)} : offset \in Offsets}

GetEDD ==
  /\ calc.fn = "getEDD" /\ calc.out = Null
  /\ calc' = [calc EXCEPT !.out = getEDD(calc.doc, calc.offset)]
  /\ UNCHANGED <<luceneConditionalLimit, rq>>

InitCalc ==
  /\ luceneConditionalLimit = DefaultLimit
  /\ rq = [r \in Reqs |-> Idle]
  /\ calc \in MergeInputs \cup RangeInputs \cup WeeksInputs \cup EDDInputs

NextCalc ==
  \/ Merge
  \/ FormatDateRange
  \/ GetWeeksPregnant
  \/ GetEDD

SpecCalc == InitCalc /\ [][NextCalc]_vars

\* ------------------------------------------------------------ properties

\* Every ftiWithPatientIds invocation made so far, as <<request, index>>.
AllCalls == {x \in Reqs \X (1..2) : x[2] <= Len(rq[x[1]].calls)}

CallOf(x) == rq[x[1]].calls[x[2]]

\* The call works through chunks: a non-empty patientIds array was given.
Chunked(c) == Has(c.options, "patientIds") /\ Len(c.options.patientIds) > 0

Succeeded(c) == c.out # Null /\ c.out.err = NoErr

CeilDiv(n, l) == (n + l - 1) \div l

\* What the engine's answers, read as the interface defines them, amount to:
\* null counts as no rows and a total of 0, a missing rows array as no rows.
RespTotal(resp) == IF resp.result = Null THEN 0 ELSE resp.result.total_rows

RespRows(resp) ==
  IF resp.result = Null \/ ~Has(resp.result, "rows") THEN <<>> ELSE resp.result.rows

RECURSIVE SumTotals(_)
SumTotals(resps) ==
  IF resps = <<>> THEN 0 ELSE RespTotal(Head(resps)) + SumTotals(Tail(resps))

RECURSIVE CatRows(_)
CatRows(resps) ==
  IF resps = <<>> THEN <<>> ELSE RespRows(Head(resps)) \o CatRows(Tail(resps))

RECURSIVE CatIds(_)
CatIds(queries) ==
  IF queries = <<>> THEN <<>> ELSE Head(queries).patient_id \o CatIds(Tail(queries))

\* C1: a chunked call over N identifiers under limit L never issues more than
\* ceil(N / L) engine queries, each query carries between 1 and L identifiers,
\* and a call that succeeds has issued exactly ceil(N / L) queries and hands
\* over a total_rows that is the sum of the chunk responses' total_rows.
C1_ChunkCount ==
  \A x \in AllCalls :
    LET c == CallOf(x)
        N == Len(c.options.patientIds)
    IN Chunked(c) =>
         /\ c.limit >= 1
         /\ Len(c.queries) <= CeilDiv(N, c.limit)
         /\ \A k \in 1..Len(c.queries) :
              /\ Len(c.queries[k].patient_id) >= 1
              /\ Len(c.queries[k].patient_id) <= c.limit
         /\ Succeeded(c) =>
              /\ Len(c.queries) = CeilDiv(N, c.limit)
              /\ c.out.result.total_rows = SumTotals(c.resps)

\* Three identifiers under limit 2: two queries, and a merged total (2) that
\* is the sum of the responses' totals and not the number of merged rows.
C1_Witness ==
  \E x \in AllCalls :
    LET c == CallOf(x)
    IN /\ Chunked(c) /\ Succeeded(c)
       /\ Len(c.options.patientIds) = 3 /\ c.limit = 2
       /\ Len(c.queries) = 2
       /\ c.out.result.total_rows = 2
       /\ Len(c.out.result.rows) = 1

\* C2: once the engine has failed a chunk query, that response is the call's
\* last one: no query was issued after it (none for a later chunk, none again
\* for the failed chunk), nothing is outstanding, and the call's callback got
\* that error and no result; so did the caller of ftiWithPatientIds.
C2_AbortOnFailure ==
  \A x \in AllCalls :
    LET c == CallOf(x)
        s == rq[x[1]]
    IN \A j \in 1..Len(c.resps) :
         (Chunked(c) /\ c.resps[j].err # NoErr) =>
           /\ j = Len(c.resps)
           /\ Len(c.queries) = j
           /\ x[2] = Len(s.calls)
           /\ s.inflight = <<>>
           /\ Len(s.sent) = IF x[2] = 1 THEN j ELSE Len(s.calls[1].queries) + j
           /\ c.out = [err |-> c.resps[j].err, result |-> Null]
           /\ s.op = "ftiWithPatientIds" =>
                s.cbs = <<[err |-> c.resps[j].err, result |-> Null]>>

\* The second of three chunk queries fails after the first returned a row.
C2_Witness ==
  \E x \in AllCalls :
    LET c == CallOf(x)
    IN /\ rq[x[1]].op = "ftiWithPatientIds"
       /\ Chunked(c) /\ Len(c.chunks) = 3
       /\ Len(c.resps) = 2
       /\ c.resps[1].err = NoErr /\ RespRows(c.resps[1]) # <<>>
       /\ c.resps[2].err = "E2"
       /\ rq[x[1]].cbs = <<[err |-> "E2", result |-> Null]>>

\* C3: a request has at most one engine query outstanding, and a call has
\* issued chunk query k + 1 only when it has the responses to the first k.
C3_Sequential ==
  \A r \in Reqs :
    /\ Len(rq[r].inflight) <= 1
    /\ \A i \in 1..Len(rq[r].calls) :
         LET c == rq[r].calls[i]
         IN /\ Len(c.queries) <= Len(c.resps) + 1
            /\ Len(c.queries) = Len(c.resps) + 1 =>
                 /\ i = Len(rq[r].calls)
                 /\ rq[r].inflight = <<c.queries[Len(c.queries)]>>
            /\ Len(c.queries) = Len(c.resps) =>
                 (i = Len(rq[r].calls) => rq[r].inflight = <<>>)

\* The third chunk query is outstanding, two responses are in.
C3_Witness ==
  \E x \in AllCalls :
    LET c == CallOf(x)
    IN /\ Chunked(c) /\ Len(c.chunks) = 3
       /\ Len(c.resps) = 2 /\ Len(c.queries) = 3
       /\ Len(rq[x[1]].inflight) = 1

\* C4: the queries issued so far carry, in order, the consecutive chunks that
\* make up a prefix of the identifier sequence; the memo holds the rows of the
\* responses so far in response order; on success the chunks add up to the
\* whole sequence and the rows handed over are the responses' rows in order.
C4_OrderedPartition ==
  \A x \in AllCalls :
    LET c == CallOf(x)
        ids == c.options.patientIds
    IN Chunked(c) =>
         /\ CatIds(c.queries) = SubSeq(ids, 1, Len(CatIds(c.queries)))
         /\ \A k \in 1..Len(c.queries) : c.queries[k].q = c.options.q
         /\ (c.out = Null \/ Succeeded(c)) => c.memo.rows = CatRows(c.resps)
         /\ Succeeded(c) =>
              /\ CatIds(c.queries) = ids
              /\ c.out.result.rows = CatRows(c.resps)

\* Identifiers <<A, B, A>> in chunks of one, each chunk returning its own row.
C4_Witness ==
  \E x \in AllCalls :
    LET c == CallOf(x)
    IN /\ Chunked(c) /\ Succeeded(c)
       /\ c.options.patientIds = <<"A", "B", "A">>
       /\ Len(c.queries) = 3
       /\ c.out.result.rows = <<Row("A"), Row("B"), Row("A")>>

\* C5: a call given an empty patientIds array issues no engine query and hands
\* over {total_rows: 0, rows: []} (a request that is such a call never contacts
\* the engine); a call given no patientIds issues exactly one engine query, the
\* query as given, without a patient_id clause.
C5_EmptyAndAbsent ==
  \A x \in AllCalls :
    LET c == CallOf(x)
        s == rq[x[1]]
    IN /\ (Has(c.options, "patientIds") /\ Len(c.options.patientIds) = 0) =>
            /\ c.queries = <<>>
            /\ c.out = [err |-> NoErr, result |-> [total_rows |-> 0, rows |-> <<>>]]
            /\ s.op = "ftiWithPatientIds" =>
                 /\ s.sent = <<>> /\ s.inflight = <<>>
                 /\ s.cbs = <<c.out>>
       /\ ~Has(c.options, "patientIds") =>
            /\ c.queries = <<[q |-> c.options.q]>>
            /\ s.op = "ftiWithPatientIds" => s.sent = c.queries

C5_Witness ==
  \E r \in Reqs :
    /\ rq[r].op = "ftiWithPatientIds" /\ rq[r].pc = "done"
    /\ Len(rq[r].calls) = 1
    /\ rq[r].calls[1].options.patientIds = <<>>
    /\ rq[r].sent = <<>>
    /\ rq[r].cbs = <<[err |-> NoErr, result |-> [total_rows |-> 0, rows |-> <<>>]]>>

\* The query operations: their callback results are search results.
QueryOps == {"fti", "ftiWithPatientIds", "getAllRegistrations", "getDeliveries", "getVisits"}

\* C6: every successful result a query operation hands to its caller has both
\* a total_rows and a rows property.
C6_NoAbsentFields ==
  \A r \in Reqs :
    rq[r].op \in QueryOps =>
      \A k \in 1..Len(rq[r].cbs) :
        rq[r].cbs[k].err = NoErr =>
          /\ Has(rq[r].cbs[k].result, "total_rows")
          /\ Has(rq[r].cbs[k].result, "rows")

\* C7: when both requests have been made, each chunked call of a request cuts
\* its identifiers as the limit in force when the request was made cuts them,
\* whatever the other request and setup do meanwhile.
C7_Isolated ==
  (\A r \in Reqs : rq[r].pc # "idle") =>
    \A x \in AllCalls :
      LET c == CallOf(x)
      IN Chunked(c) =>
           /\ c.chunks = chunk(c.options.patientIds, rq[x[1]].limit0)
           /\ \A k \in 1..Len(c.queries) :
                c.queries[k] = [q |-> c.options.q, patient_id |-> c.chunks[k]]

\* The rows of every response a request has received, in order of arrival.
Fetched(s) == IF s.calls = <<>> THEN <<>> ELSE CatRows(s.calls[1].resps)

FetchedIds(s) == {Fetched(s)[k].doc.patient_id : k \in 1..Len(Fetched(s))}

\* C8: a rejectDeliveries that succeeds hands over exactly the input entities
\* whose patient_id is on none of the delivery rows the engine returned for the
\* request's chunk queries, in input order, whatever the chunk limit; an empty
\* batch yields an empty result without an engine query.
C8_RejectDeliveries ==
  \A r \in Reqs :
    LET s == rq[r]
    IN (s.op = "rejectDeliveries" /\ s.pc = "done") =>
         /\ Len(s.cbs) = 1
         /\ s.cbs[1].err = NoErr =>
              s.cbs[1].result =
                SelectSeq(s.objects0, LAMBDA o : o.patient_id \notin FetchedIds(s))
         /\ s.objects0 = <<>> =>
              (s.cbs = <<[err |-> NoErr, result |-> <<>>]>> /\ s.sent = <<>>)

\* The example: limit 2, entities A, C, B, D, deliveries found for A and B.
C8_Witness ==
  \E r \in Reqs :
    LET s == rq[r]
    IN /\ s.op = "rejectDeliveries" /\ s.pc = "done"
       /\ s.objects0 = ExampleBatch
       /\ s.calls[1].limit = 2 /\ Len(s.calls[1].queries) = 2
       /\ FetchedIds(s) = {"A", "B"}
       /\ s.cbs = <<[err |-> NoErr,
                     result |-> <<[patient_id |-> "C"], [patient_id |-> "D"]>>]>>

\* C9: after an injectVisits that succeeds the batch holds the same entities
\* in the same order, each with a visits attribute that is a natural number:
\* the number of rows, over every chunk response, with the entity's patient_id.
C9_InjectVisits ==
  \A r \in Reqs :
    LET s == rq[r]
    IN (s.op = "injectVisits" /\ s.pc = "done" /\ s.cbs[1].err = NoErr) =>
         /\ s.cbs = <<[err |-> NoErr, result |-> s.objects]>>
         /\ Len(s.objects) = Len(s.objects0)
         /\ \A i \in 1..Len(s.objects) :
              LET o == s.objects[i]
              IN /\ DOMAIN o = DOMAIN s.objects0[i] \cup {"visits"}
                 /\ o.patient_id = s.objects0[i].patient_id
                 /\ o.visits \in Nat
                 /\ o.visits =
                      Cardinality({k \in 1..Len(Fetched(s)) :
                                     Fetched(s)[k].doc.patient_id = o.patient_id})

\* Two entities of patient A, one with a stale count, queried in two chunks
\* that return a visit each: both end with 2.
C9_Witness ==
  \E r \in Reqs :
    LET s == rq[r]
    IN /\ s.op = "injectVisits" /\ s.pc = "done"
       /\ s.objects0 = <<[patient_id |-> "A", visits |-> 7], [patient_id |-> "A"]>>
       /\ Len(s.calls[1].queries) = 2
       /\ s.cbs[1].err = NoErr
       /\ s.objects[1].visits = 2 /\ s.objects[2].visits = 2

\* C10: in every state of an injectRisk request each entity is either as it
\* was passed or as it was passed with high_risk = true, and an entity whose
\* patient_id is on no flag row returned is as it was passed.
C10_RiskOnlyTrue ==
  \A r \in Reqs :
    LET s == rq[r]
    IN s.op = "injectRisk" =>
         /\ Len(s.objects) = Len(s.objects0)
         /\ \A i \in 1..Len(s.objects) :
              /\ \/ s.objects[i] = s.objects0[i]
                 \/ s.objects[i] = SetField(s.objects0[i], "high_risk", TRUE)
              /\ s.objects[i].patient_id \notin FetchedIds(s) =>
                   s.objects[i] = s.objects0[i]

\* A flag record for A only: A's false becomes true, B's false stays.
C10_Witness ==
  \E r \in Reqs :
    LET s == rq[r]
    IN /\ s.op = "injectRisk" /\ s.pc = "done"
       /\ s.objects0 = <<[patient_id |-> "A", high_risk |-> FALSE],
                         [patient_id |-> "B", high_risk |-> FALSE]>>
       /\ FetchedIds(s) = {"A"}
       /\ s.objects = <<[patient_id |-> "A", high_risk |-> TRUE],
                        [patient_id |-> "B", high_risk |-> FALSE]>>
       /\ s.cbs = <<[err |-> NoErr, result |-> s.objects]>>

\* C11: getVisits given no options, no patientIds or an empty patientIds, and
\* rejectDeliveries, injectVisits, injectRisk (so the high-risk query) given an
\* empty batch, complete at once with an empty result and send nothing to the
\* engine; every visit or flag query sent carries a patient_id clause.
C11_ShortCircuit ==
  \A r \in Reqs :
    LET s == rq[r]
    IN /\ (/\ s.op = "getVisits"
           /\ \/ s.options = Null
              \/ ~Has(s.options, "patientIds")
              \/ Len(s.options.patientIds) = 0) =>
            /\ s.pc = "done" /\ s.sent = <<>> /\ s.calls = <<>>
            /\ s.cbs = <<[err |-> NoErr, result |-> EmptyArray]>>
       /\ (s.op \in {"rejectDeliveries", "injectVisits", "injectRisk"} /\ s.objects0 = <<>>) =>
            /\ s.pc = "done" /\ s.sent = <<>> /\ s.calls = <<>>
            /\ s.cbs = <<[err |-> NoErr, result |-> <<>>]>>
       /\ \A k \in 1..Len(s.sent) :
            s.sent[k].q \in {[form |-> getFormCode("visit")], [form |-> getFormCode("flag")]} =>
              (Has(s.sent[k], "patient_id") /\ s.sent[k].patient_id # <<>>)

\* getVisits called with options that hold no patientIds.
C11_Witness ==
  \E r \in Reqs :
    /\ rq[r].op = "getVisits" /\ rq[r].pc = "done"
    /\ rq[r].options = [include_docs |-> TRUE]
    /\ rq[r].sent = <<>>
    /\ rq[r].cbs = <<[err |-> NoErr, result |-> EmptyArray]>>

\* C12: when an engine query made for a composite operation or a named query
\* fails with error e, the request is over: its callback has been given
\* exactly e and no result, nothing more has been sent to the engine, nothing
\* is outstanding; a getBirthPatientIds whose registrations query failed has
\* sent no deliveries query.
C12_ErrorPropagation ==
  \A x \in AllCalls :
    LET c == CallOf(x)
        s == rq[x[1]]
    IN \A j \in 1..Len(c.resps) :
         c.resps[j].err # NoErr =>
           /\ s.pc = "done"
           /\ s.cbs = <<[err |-> c.resps[j].err, result |-> Null]>>
           /\ s.inflight = <<>>
           /\ x[2] = Len(s.calls) /\ j = Len(c.resps)
           /\ Len(s.sent) = IF x[2] = 1 THEN j ELSE Len(s.calls[1].resps) + j
           /\ (s.op = "getBirthPatientIds" /\ x[2] = 1) =>
                \A k \in 1..Len(s.sent) :
                  s.sent[k].q # [form |-> getFormCode("delivery")]

\* A getBirthPatientIds whose registrations query failed with E2.
C12_Witness ==
  \E r \in Reqs :
    /\ rq[r].op = "getBirthPatientIds"
    /\ Len(rq[r].calls) = 1
    /\ Len(rq[r].calls[1].resps) = 1
    /\ rq[r].calls[1].resps[1].err = "E2"
    /\ rq[r].cbs = <<[err |-> "E2", result |-> Null]>>

\* C14: a getBirthPatientIds that succeeds hands over the patient ids found on
\* the rows of its registrations query and of its deliveries query, each once
\* and no other; the registrations query asks for the window that ends 42
\* weeks ago whatever minWeeksPregnant the caller gave; and the deliveries
\* queries are sent only after the registrations queries have all been
\* answered successfully.
C14_BirthUnion ==
  \A r \in Reqs :
    LET s == rq[r]
        nReg == Len(s.calls[1].queries)
    IN (s.op = "getBirthPatientIds") =>
         /\ Len(s.calls) \in {1, 2}
         /\ \A k \in 1..Len(s.sent) :
              IF k <= nReg
              THEN /\ s.sent[k].q.form = <<getFormCode("registration"),
                                           getFormCode("registrationLmp")>>
                   /\ s.sent[k].q.expected_date[2] = 42
              ELSE s.sent[k].q = [form |-> getFormCode("delivery")]
         /\ Len(s.calls) = 2 =>
              /\ Succeeded(s.calls[1])
              /\ Len(s.calls[1].resps) = nReg
              /\ Len(s.sent) = nReg + Len(s.calls[2].queries)
         /\ (s.pc = "done" /\ s.cbs[1].err = NoErr) =>
              LET ids == s.cbs[1].result
                  regRows == CatRows(s.calls[1].resps)
                  delRows == CatRows(s.calls[2].resps)
              IN /\ Len(s.calls) = 2
                 /\ \A i, j \in 1..Len(ids) : ids[i] = ids[j] => i = j
                 /\ Range(ids) = {regRows[k].doc.patient_id : k \in 1..Len(regRows)} \cup
                                 {delRows[k].doc.patient_id : k \in 1..Len(delRows)}

\* The caller asked for minWeeksPregnant 10; patient A is on a registration
\* row and on a delivery row and comes back once.
C14_Witness ==
  \E r \in Reqs :
    /\ rq[r].op = "getBirthPatientIds" /\ rq[r].pc = "done"
    /\ Has(rq[r].options0, "minWeeksPregnant")
    /\ Len(rq[r].calls) = 2
    /\ CatRows(rq[r].calls[1].resps) = <<Row("A")>>
    /\ CatRows(rq[r].calls[2].resps) = <<Row("A")>>
    /\ rq[r].cbs = <<[err |-> NoErr, result |-> <<"A">>]>>

\* C18: after an injectRisk that succeeds, the entity marked for a flagged
\* patient id is the first entity of the batch with that id: it is as passed
\* with high_risk = true; every other entity, among them the later entities of
\* the same patient, is as it was passed; the callback's result is the batch,
\* same entities in the same order.
C18_FirstMatchOnly ==
  \A r \in Reqs :
    LET s == rq[r]
    IN (s.op = "injectRisk" /\ s.pc = "done" /\ s.cbs[1].err = NoErr) =>
         /\ s.cbs = <<[err |-> NoErr, result |-> s.objects]>>
         /\ pluckPatientId(s.objects) = pluckPatientId(s.objects0)
         /\ \A i \in 1..Len(s.objects0) :
              LET id == s.objects0[i].patient_id
                  first == \A j \in 1..(i - 1) : s.objects0[j].patient_id # id
              IN s.objects[i] =
                   IF id \in FetchedIds(s) /\ first
                   THEN SetField(s.objects0[i], "high_risk", TRUE)
                   ELSE s.objects0[i]

\* Two entities of patient A and a flag record for A: the first is marked,
\* the second is not.
C18_Witness ==
  \E r \in Reqs :
    LET s == rq[r]
    IN /\ s.op = "injectRisk" /\ s.pc = "done"
       /\ s.objects0 = <<[patient_id |-> "A"], [patient_id |-> "A"]>>
       /\ FetchedIds(s) = {"A"}
       /\ s.objects = <<[patient_id |-> "A", high_risk |-> TRUE], [patient_id |-> "A"]>>
       /\ s.cbs = <<[err |-> NoErr, result |-> s.objects]>>

\* C20: an injectVisits or injectRisk whose callback was given an error has
\* changed no entity, also when earlier chunk queries had succeeded; entities
\* change only in the step that hands over the successful result.
C20_AllOrNothing ==
  \A r \in Reqs :
    LET s == rq[r]
    IN s.op \in {"injectVisits", "injectRisk"} =>
         /\ (s.pc # "done" \/ s.cbs[1].err # NoErr) => s.objects = s.objects0
         /\ s.objects # s.objects0 => s.cbs = <<[err |-> NoErr, result |-> s.objects]>>

\* An injectVisits over two chunks: the first returned a visit of A, the
\* second failed; the entities are as passed.
C20_Witness ==
  \E r \in Reqs :
    LET s == rq[r]
    IN /\ s.op = "injectVisits" /\ s.pc = "done"
       /\ Len(s.calls) = 1
       /\ Len(s.calls[1].resps) = 2
       /\ RespRows(s.calls[1].resps[1]) = <<Row("A")>>
       /\ s.calls[1].resps[2].err = "E1"
       /\ s.cbs = <<[err |-> "E1", result |-> Null]>>
       /\ s.objects0 = <<[patient_id |-> "A"], [patient_id |-> "B"]>>
       /\ s.objects = s.objects0

\* The operations whose result is an array (of identifiers or of entities);
\* the others hand over a result object or getVisits' [].
ArrayOps == {"getBirthPatientIds", "rejectDeliveries", "injectVisits", "injectRisk"}

\* C19: a request's callback is never invoked twice; a request is done exactly
\* when its callback has been invoked; the callback gets an error and no
\* result, or a result and no error; and, the engine answering every query,
\* a request that waits for the engine is eventually done, for every
\* identifier sequence and every limit of 1 or more.
C19_CompletesOnce ==
  /\ [](\A r \in Reqs :
          /\ Len(rq[r].cbs) <= 1
          /\ (rq[r].pc = "done") <=> (Len(rq[r].cbs) = 1)
          /\ \A k \in 1..Len(rq[r].cbs) :
               IF rq[r].cbs[k].err # NoErr THEN rq[r].cbs[k].result = Null
               ELSE rq[r].op \in ArrayOps \/ rq[r].cbs[k].result # Null)
  /\ \A r \in Reqs : (rq[r].pc = "waiting") ~> (rq[r].pc = "done")

\* An ftiWithPatientIds over three chunks of one identifier is done after its
\* three queries, its callback invoked once with a result.
C19_Witness ==
  \E r \in Reqs :
    /\ rq[r].op = "ftiWithPatientIds" /\ rq[r].pc = "done"
    /\ Len(rq[r].calls[1].chunks) = 3 /\ Len(rq[r].sent) = 3
    /\ Len(rq[r].cbs) = 1
    /\ rq[r].cbs[1].err = NoErr

\* C13: the merge step is associative: folding three results from the left
\* and from the right gives the same rows, a's then b's then c's, and the
\* same total_rows, the sum of the three; merging one result into the initial
\* accumulator gives that result's rows and total_rows.
C13_MergeAssociative ==
  (calc.fn = "merge" /\ calc.out # Null) =>
    /\ calc.out.left = calc.out.right
    /\ calc.out.left.rows = calc.a.rows \o calc.b.rows \o calc.c.rows
    /\ calc.out.left.total_rows =
         calc.a.total_rows + calc.b.total_rows + calc.c.total_rows
    /\ calc.out.single = [rows |-> calc.a.rows, total_rows |-> calc.a.total_rows]

\* Three results of one row each, of different totals, merged.
C13_Witness ==
  /\ calc.fn = "merge" /\ calc.out # Null
  /\ calc.a = [rows |-> <<Row("A")>>, total_rows |-> 2]
  /\ calc.b = [rows |-> <<Row("B")>>, total_rows |-> 1]
  /\ calc.c = [rows |-> <<Row("A")>>, total_rows |-> 1]
  /\ calc.out.left = [rows |-> <<Row("A"), Row("B"), Row("A")>>, total_rows |-> 4]

\* The date that getWeeksPregnant reads from a record, and the whole weeks
\* from it to now.
PregnancyDate(doc) == IF doc.form = "R" THEN doc.reported_date ELSE doc.lmp_date

WeeksAgo(doc, now) == (now.t - PregnancyDate(doc)) \div (7 * 24)

\* C15 as the specification states it: for a record whose date is w whole weeks
\* ago getWeeksPregnant returns {number: w - 2, approximate: false} when the
\* record is LMP-based and {number: w, approximate: true} when it is a
\* reported-date registration.
C15_WeeksPregnantAsStated ==
  (calc.fn = "getWeeksPregnant" /\ calc.out # Null /\ calc.now.t >= PregnancyDate(calc.doc)) =>
    calc.out = IF calc.doc.form = getFormCode("registration")
               THEN [number |-> WeeksAgo(calc.doc, calc.now), approximate |-> TRUE]
               ELSE [number |-> WeeksAgo(calc.doc, calc.now) - 2, approximate |-> FALSE]

\* C15: for a record whose date is w whole weeks ago getWeeksPregnant returns
\* {number: w - 2}, an object without an approximate property, when the record
\* is LMP-based, and {number: w, approximate: true} when it is a reported-date
\* registration: 8 for an LMP 10 weeks ago, 6 and approximate for a report 6
\* weeks ago.
C15_WeeksPregnant ==
  (calc.fn = "getWeeksPregnant" /\ calc.out # Null /\ calc.now.t >= PregnancyDate(calc.doc)) =>
    calc.out = IF calc.doc.form = getFormCode("registration")
               THEN [number |-> WeeksAgo(calc.doc, calc.now), approximate |-> TRUE]
               ELSE [number |-> WeeksAgo(calc.doc, calc.now) - 2]

\* An LMP 10 weeks ago to the hour: 8 weeks, no approximate property.
C15_Witness ==
  /\ calc.fn = "getWeeksPregnant"
  /\ calc.doc.form = getFormCode("registrationLmp")
  /\ calc.now.t - calc.doc.lmp_date = 10 * 7 * 24
  /\ calc.out = [number |-> 8]

\* The local calendar day, counted from 1970-01-01, of a timestamp.
LocalDay(t, offset) == (t + offset) \div 24

\* C16 as the specification states it: getEDD returns the LMP plus 42 weeks, not
\* approximate, or the reported date plus 40 weeks, approximate; for an LMP of
\* 2020-01-01 the due date is 2020-10-28.
C16_EDDAsStated ==
  (calc.fn = "getEDD" /\ calc.out # Null) =>
    IF calc.doc.form = getFormCode("registration")
    THEN /\ calc.out.approximate = TRUE
         /\ calc.out.date.t = calc.doc.reported_date + 40 * 7 * 24
    ELSE /\ ~Has(calc.out, "approximate")
         /\ calc.out.date.t = calc.doc.lmp_date + 42 * 7 * 24
         /\ format(moment(calc.doc.lmp_date, calc.offset)) = <<2020, 1, 1>> =>
              format(calc.out.date) = <<2020, 10, 28>>

\* C16: getEDD returns the LMP plus 42 weeks, without an approximate property,
\* or the reported date plus 40 weeks, approximate: the same time of day on
\* the calendar day 294, or 280, days later; for an LMP of 2020-01-01 the due
\* date is 2020-10-21.
C16_EDD ==
  (calc.fn = "getEDD" /\ calc.out # Null) =>
    IF calc.doc.form = getFormCode("registration")
    THEN /\ calc.out.approximate = TRUE
         /\ calc.out.date.t = calc.doc.reported_date + 40 * 7 * 24
         /\ format(calc.out.date) =
              CivilFromDays(LocalDay(calc.doc.reported_date, calc.offset) + 280)
    ELSE /\ ~Has(calc.out, "approximate")
         /\ calc.out.date.t = calc.doc.lmp_date + 42 * 7 * 24
         /\ format(calc.out.date) =
              CivilFromDays(LocalDay(calc.doc.lmp_date, calc.offset) + 294)
         /\ format(moment(calc.doc.lmp_date, calc.offset)) = <<2020, 1, 1>> =>
              format(calc.out.date) = <<2020, 10, 21>>

\* An LMP of 2020-01-01, local midnight three hours east of UTC: due on
\* 2020-10-21.
C16_Witness ==
  /\ calc.fn = "getEDD" /\ calc.offset = 3
  /\ calc.doc.form = getFormCode("registrationLmp")
  /\ calc.doc.lmp_date = 24 * DaysFromCivil(2020, 1, 1) - 3
  /\ calc.out # Null
  /\ format(calc.out.date) = <<2020, 10, 21>>

====
